---- MODULE Spec2Model ----
(***************************************************************************)
(* REST handlers of server/routes.ts over the relational schema of         *)
(* shared/schema.ts.  Every table is a sequence of rows in insertion       *)
(* order; every handler is one action, except the submit handler, whose    *)
(* two awaited statements are two steps of a request in flight.  req and   *)
(* resp hold the last HTTP exchange answered.  Every statement sent to the *)
(* store may fail (fault): the awaited promise rejects and the handler's   *)
(* catch block answers.                                                    *)
(***************************************************************************)
EXTENDS Integers, Sequences, FiniteSets, TLC

VARIABLES codeSnippets, snippetMessages, codingChallenges,
          challengeSubmissions, userPracticeStats, projects,
          clock, inflight, req, resp

vars == <<codeSnippets, snippetMessages, codingChallenges,
          challengeSubmissions, userPracticeStats, projects,
          clock, inflight, req, resp>>

tables == <<codeSnippets, snippetMessages, codingChallenges,
            challengeSubmissions, userPracticeStats, projects>>

-----------------------------------------------------------------------------
(* Bounds of the model. *)

NumUsers == 2
MaxClock == 1

(* JSON values: a key that is missing, an explicit null, a value of the    *)
(* wrong JSON type for its column.                                         *)
Undef == "UNDEF"
Null == "NULL"
BadType == "BADTYPE"

Users == 1..NumUsers
NoUser == 0

Min(a, b) == IF a < b THEN a ELSE b

-----------------------------------------------------------------------------
(* Generic relational helpers. *)

\* rows of a table satisfying a column = value condition
WhereEq(table, col, val) == SelectSeq(table, LAMBDA row : row[col] = val)

\* LIMIT n
Limit(rows, n) == SubSeq(rows, 1, Min(n, Len(rows)))

\* defaultRandom(): a fresh primary key; no handler deletes a row, so the
\* number of the next row is one
RandomId(table) == Len(table) + 1

\* the set of rows of a table
RowSet(table) == {table[i] : i \in DOMAIN table}

-----------------------------------------------------------------------------
(* Snippets. *)

TokenLen == 12

\* symbols of the URL-safe alphabet
Alphabet == {"a", "b"}

\* nanoid(size): a string of `size` symbols of the alphabet; the generator
\* returns the constant strings here, so it can return a token in use
nanoid(size) == {[i \in 1..size |-> c] : c \in Alphabet}

\* a token of the right shape that the generator never returns here
ForeignToken == [i \in 1..TokenLen |-> "z"]

\* a key of a JSON body, undefined when the body does not carry it
Get(body, k) == IF k \in DOMAIN body THEN body[k] ELSE Undef

\* request bodies of POST /api/snippets
SnippetBodies ==
  { [content |-> "c1"],
    [title |-> "t1", description |-> "d1", content |-> "c1",
     language |-> "python", ownerId |-> "u1", isPublic |-> "true",
     expiresAt |-> Null],
    [title |-> "t1", content |-> "c1", id |-> 99, createdAt |-> 99,
     shareToken |-> ForeignToken],
    [title |-> BadType, content |-> "c1", shareToken |-> <<>>] }

SnippetColumns ==
  {"title", "description", "content", "language", "ownerId", "isProtected",
   "isPublic", "isFeatured", "isTemporary", "expiresAt"}

\* insertCodeSnippetSchema.parse succeeds: title is a string when given
\* (NOT NULL with a default); the other columns are nullable
insertCodeSnippetSchemaOk(body) ==
  /\ Get(body, "title") \notin {Null, BadType}
  /\ \A k \in SnippetColumns : Get(body, k) # BadType

\* insertCodeSnippetSchema.parse: the keys of the schema; id, createdAt,
\* updatedAt and shareToken are omitted from it and stripped
insertCodeSnippetSchemaParse(body) ==
  [k \in SnippetColumns \cap DOMAIN body |-> body[k]]

\* a column's value on insert: the given one, or the column's default
OrDefault(v, d) == IF v = Undef THEN d ELSE v

\* the row db.insert(codeSnippets).values({...data, shareToken}) stores
NewSnippetRow(data, shareToken, id, now) ==
  [id |-> id,
   title |-> OrDefault(Get(data, "title"), "Untitled"),
   description |-> OrDefault(Get(data, "description"), Null),
   content |-> OrDefault(Get(data, "content"), ""),
   language |-> OrDefault(Get(data, "language"), "javascript"),
   ownerId |-> OrDefault(Get(data, "ownerId"), Null),
   isProtected |-> OrDefault(Get(data, "isProtected"), "false"),
   isPublic |-> OrDefault(Get(data, "isPublic"), "false"),
   isFeatured |-> OrDefault(Get(data, "isFeatured"), "false"),
   isTemporary |-> OrDefault(Get(data, "isTemporary"), "false"),
   expiresAt |-> OrDefault(Get(data, "expiresAt"), Null),
   shareToken |-> shareToken,
   createdAt |-> now,
   updatedAt |-> now]

\* no unique index on share_token
SnippetConflictNever(row) == FALSE

\* the insert violates the unique index on share_token
SnippetConflict(row) ==
  \E i \in DOMAIN codeSnippets : codeSnippets[i].shareToken = row.shareToken

\* the values POST /api/snippets hands to the insert
SnippetValues(body, shareToken) ==
  [data |-> insertCodeSnippetSchemaParse(body), shareToken |-> shareToken]

\* POST /api/snippets
PostSnippet ==
  \E body \in SnippetBodies, shareToken \in nanoid(TokenLen),
     fault \in BOOLEAN :
    LET vals == SnippetValues(body, shareToken)
        row == NewSnippetRow(vals.data, vals.shareToken,
                             RandomId(codeSnippets), clock)
        rq == [op |-> "postSnippet", nanoid |-> shareToken, fault |-> fault]
    IN /\ req' = rq
       /\ IF ~insertCodeSnippetSchemaOk(body)
          THEN /\ resp' = [status |-> 400, body |-> "validation"]
               /\ UNCHANGED codeSnippets
          ELSE IF fault \/ SnippetConflict(row)
          THEN /\ resp' = [status |-> 400, body |-> "storage"]
               /\ UNCHANGED codeSnippets
          ELSE /\ codeSnippets' = Append(codeSnippets, row)
               /\ resp' = [status |-> 200, body |-> row]
       /\ UNCHANGED <<snippetMessages, codingChallenges, challengeSubmissions,
                      userPracticeStats, projects, clock, inflight>>

\* a lookup that answers the first row of the table
SnippetFirstRow(shareToken) == Limit(codeSnippets, 1)

\* select().from(codeSnippets).where(eq(shareToken, :shareToken)).limit(1)
SnippetByToken(shareToken) ==
  Limit(WhereEq(codeSnippets, "shareToken", shareToken), 1)

\* a missing row answered as a success without a row
RowOrEmpty(rows) ==
  IF rows = <<>> THEN [status |-> 200, body |-> "null"]
  ELSE [status |-> 200, body |-> rows[1]]

\* if (!snippet) return 404; res.json(snippet)
RowOr404(rows) ==
  IF rows = <<>> THEN [status |-> 404, body |-> "notfound"]
  ELSE [status |-> 200, body |-> rows[1]]

InternalError == [status |-> 500, body |-> "internal"]

\* GET /api/snippets/:shareToken
GetSnippet ==
  \E shareToken \in nanoid(TokenLen) \cup {ForeignToken}, fault \in BOOLEAN :
    /\ req' = [op |-> "getSnippet", shareToken |-> shareToken,
               fault |-> fault]
    /\ resp' = IF fault THEN InternalError
               ELSE RowOr404(SnippetByToken(shareToken))
    /\ UNCHANGED <<tables, clock, inflight>>

\* request bodies of PATCH /api/snippets/:shareToken
PatchBodies ==
  { [content |-> "c2"],
    [content |-> Null, title |-> "t2", description |-> "d2",
     language |-> "go", shareToken |-> ForeignToken, ownerId |-> "u2",
     isPublic |-> "true", id |-> 99, createdAt |-> 99],
    [content |-> "c2", title |-> Null] }

\* every key of the body assigned to its column
PatchSetAll(body, now) ==
  [k \in DOMAIN body |-> body[k]] @@ [updatedAt |-> now]

\* the columns .set({content, title, description, language, updatedAt})
\* assigns; a key whose value is undefined is left out of the SET clause
PatchSet(body, now) ==
  [k \in {"content", "title", "description", "language"} \cap DOMAIN body
      |-> body[k]] @@ [updatedAt |-> now]

\* a row after UPDATE ... SET
ApplySet(row, set) ==
  [k \in DOMAIN row |->
     IF k \in DOMAIN set THEN set[k] ELSE row[k]]

\* the rows UPDATE ... WHERE share_token = :shareToken touches
PatchMatches(row, shareToken) == row.shareToken = shareToken

\* PATCH /api/snippets/:shareToken
PatchSnippet ==
  \E shareToken \in nanoid(TokenLen) \cup {ForeignToken},
     body \in PatchBodies, fault \in BOOLEAN :
    LET set == PatchSet(body, clock)
        hit == {i \in DOMAIN codeSnippets :
                   PatchMatches(codeSnippets[i], shareToken)}
        updated == [i \in DOMAIN codeSnippets |->
                      IF i \in hit THEN ApplySet(codeSnippets[i], set)
                      ELSE codeSnippets[i]]
        \* title is NOT NULL: setting it to null fails the statement
        violates == \E i \in hit : updated[i].title = Null
    IN /\ req' = [op |-> "patchSnippet", shareToken |-> shareToken,
                  fault |-> fault]
       /\ IF fault \/ violates
          THEN /\ resp' = InternalError
               /\ UNCHANGED codeSnippets
          ELSE /\ resp' = RowOr404([i \in 1..Cardinality(hit) |->
                                     updated[CHOOSE j \in hit : TRUE]])
               /\ codeSnippets' = updated
       /\ UNCHANGED <<snippetMessages, codingChallenges, challengeSubmissions,
                      userPracticeStats, projects, clock, inflight>>

\* the store's clock advances between statements
Tick ==
  /\ clock < MaxClock
  /\ clock' = clock + 1
  /\ UNCHANGED <<tables, inflight, req, resp>>

NoExchange == [op |-> "none", fault |-> FALSE]
NoResponse == [status |-> 0, body |-> "none"]

EmptyStore ==
  /\ codeSnippets = <<>>
  /\ snippetMessages = <<>>
  /\ codingChallenges = <<>>
  /\ challengeSubmissions = <<>>
  /\ userPracticeStats = <<>>
  /\ projects = <<>>

SnippetInit ==
  /\ EmptyStore
  /\ clock = 0
  /\ inflight = <<>>
  /\ req = NoExchange
  /\ resp = NoResponse

SnippetNext == PostSnippet \/ GetSnippet \/ PatchSnippet \/ Tick

SnippetSpec == SnippetInit /\ [][SnippetNext]_vars

-----------------------------------------------------------------------------
(* Ordering. *)

RECURSIVE Reverse(_)
Reverse(rows) ==
  IF rows = <<>> THEN <<>> ELSE Reverse(Tail(rows)) \o <<Head(rows)>>

\* the rows with the greatest value of col first, then those of the next
\* value, and so on through keys; rows equal on col keep the order of the
\* table (tie = "first") or the reverse of it (tie = "last"): the store does
\* not say which
RECURSIVE Descending(_, _, _, _)
Descending(rows, col, keys, tie) ==
  IF keys = {} THEN <<>>
  ELSE LET top == CHOOSE k \in keys : \A o \in keys : o <= k
           same == SelectSeq(rows, LAMBDA row : row[col] = top)
       IN (IF tie = "first" THEN same ELSE Reverse(same))
            \o Descending(rows, col, keys \ {top}, tie)

\* ORDER BY col DESC
OrderByDesc(rows, col, tie) ==
  Descending(rows, col, {rows[i][col] : i \in DOMAIN rows}, tie)

Ties == {"first", "last"}

-----------------------------------------------------------------------------
(* Challenges, submissions and practice statistics. *)

MaxSubmits == 3

ChallengeIds == {1, 2}

\* the row POST /api/coding-challenges/generate stores
NewChallengeRow(difficulty, language, id, now) ==
  [id |-> id,
   title |-> <<difficulty, language, "Challenge">>,
   description |-> <<language, difficulty>>,
   difficulty |-> difficulty,
   language |-> language,
   constraints |-> "Standard constraints apply",
   createdAt |-> now,
   createdBy |-> Null]

\* request bodies of POST /api/coding-challenges/:challengeId/submit
SubmitBodies ==
  {[code |-> "c", language |-> "python", userId |-> u] : u \in Users}
  \cup
  { [code |-> "c", language |-> "python"],
    [code |-> "c", language |-> "python", userId |-> NoUser],
    [code |-> "c", language |-> "go", userId |-> 1, score |-> 7,
     rank |-> "F", id |-> 99],
    [language |-> "python", userId |-> 1] }

SubmissionColumns ==
  {"challengeId", "userId", "sessionId", "code", "language", "score", "rank",
   "feedback", "executionTimeMs", "hintsUsed"}

\* insertChallengeSubmissionSchema.parse succeeds: code and language are
\* NOT NULL columns without a default
insertChallengeSubmissionSchemaOk(body) ==
  /\ "code" \in DOMAIN body
  /\ "language" \in DOMAIN body

\* insertChallengeSubmissionSchema.parse({...req.body, challengeId}): id and
\* submittedAt are omitted from the schema and stripped
insertChallengeSubmissionSchemaParse(body, challengeId) ==
  [k \in (SubmissionColumns \cap DOMAIN body) \cup {"challengeId"} |->
     IF k = "challengeId" THEN challengeId ELSE body[k]]

\* the synthesized grading result
score == 100
rank == "A+"

\* the row db.insert(challengeSubmissions).values({...data, score, rank,
\* testResults, feedback, strengths, improvements}) stores
NewSubmissionRow(data, id, now) ==
  [id |-> id,
   challengeId |-> data.challengeId,
   userId |-> IF "userId" \in DOMAIN data THEN data.userId ELSE NoUser,
   code |-> data.code,
   language |-> data.language,
   score |-> score,
   rank |-> rank,
   feedback |-> "Great work!",
   submittedAt |-> now]

\* challenge_id references coding_challenges(id)
ChallengeExists(challengeId) ==
  \E i \in DOMAIN codingChallenges : codingChallenges[i].id = challengeId

\* an insert branch that leaves the counters at their column defaults
StatsValuesUnseeded(userId, now) ==
  [userId |-> userId,
   totalChallenges |-> 0,
   totalSubmissions |-> 0,
   averageScore |-> "0.00",
   bestRank |-> Null,
   languagesPracticed |-> "{}",
   difficultyBreakdown |-> "{}",
   rankDistribution |-> "{}",
   totalPoints |-> 0,
   currentStreak |-> 0,
   longestStreak |-> 0,
   lastSubmissionDate |-> Null,
   updatedAt |-> now]

\* the row the upsert inserts when the user has none
StatsValues(userId, now) ==
  [userId |-> userId,
   totalChallenges |-> 1,
   totalSubmissions |-> 1,
   averageScore |-> "100.00",
   bestRank |-> Null,
   languagesPracticed |-> "{}",
   difficultyBreakdown |-> "{}",
   rankDistribution |-> "{}",
   totalPoints |-> score,
   currentStreak |-> 0,
   longestStreak |-> 0,
   lastSubmissionDate |-> Null,
   updatedAt |-> now]

\* a conflict branch that stores the values of the insert
StatsOnConflictOverwrite(row, now) ==
  [row EXCEPT !.totalSubmissions = 1, !.totalPoints = score,
              !.updatedAt = now]

\* a conflict branch that also counts the challenge and extends the streak
StatsOnConflictRecompute(row, now) ==
  [row EXCEPT !.totalSubmissions = row.totalSubmissions + 1,
              !.totalPoints = row.totalPoints + score,
              !.totalChallenges = row.totalChallenges + 1,
              !.currentStreak = row.currentStreak + 1,
              !.updatedAt = now]

\* the SET clause of onConflictDoUpdate, evaluated by the store on the
\* stored row
StatsOnConflict(row, now) ==
  [row EXCEPT !.totalSubmissions = row.totalSubmissions + 1,
              !.totalPoints = row.totalPoints + score,
              !.updatedAt = now]

\* ON CONFLICT DO NOTHING
UpsertDoNothing(table, userId, now) ==
  IF \E i \in DOMAIN table : table[i].userId = userId
  THEN table
  ELSE Append(table, StatsValues(userId, now))

\* insert(userPracticeStats).values(...).onConflictDoUpdate({target: userId}),
\* one atomic statement
Upsert(table, userId, now) ==
  IF \E i \in DOMAIN table : table[i].userId = userId
  THEN [i \in DOMAIN table |->
          IF table[i].userId = userId THEN StatsOnConflict(table[i], now)
          ELSE table[i]]
  ELSE Append(table, StatsValues(userId, now))

\* if (data.userId)
KnownUser(data) == "userId" \in DOMAIN data /\ data.userId # NoUser

\* POST /api/coding-challenges/:challengeId/submit, up to the end of its
\* first statement: the payload is parsed and the submission inserted.  With
\* a known user the request then awaits the upsert; otherwise it is answered.
SubmitInsert ==
  \E body \in SubmitBodies, challengeId \in ChallengeIds, fault \in BOOLEAN :
    LET data == insertChallengeSubmissionSchemaParse(body, challengeId)
        row == NewSubmissionRow(data, RandomId(challengeSubmissions), clock)
    IN /\ Len(challengeSubmissions) < MaxSubmits
       /\ IF ~insertChallengeSubmissionSchemaOk(body)
          THEN /\ req' = [op |-> "submit", fault |-> fault, userId |-> NoUser]
               /\ resp' = [status |-> 400, body |-> "validation"]
               /\ UNCHANGED <<challengeSubmissions, inflight>>
          ELSE IF fault \/ ~ChallengeExists(challengeId)
          THEN /\ req' = [op |-> "submit", fault |-> fault, userId |-> NoUser]
               /\ resp' = [status |-> 400, body |-> "storage"]
               /\ UNCHANGED <<challengeSubmissions, inflight>>
          ELSE /\ challengeSubmissions' = Append(challengeSubmissions, row)
               /\ IF KnownUser(data)
                  THEN /\ inflight' = Append(inflight,
                            [userId |-> data.userId, submission |-> row.id,
                             pc |-> "upsert"])
                       /\ UNCHANGED <<req, resp>>
                  ELSE /\ req' = [op |-> "submit", fault |-> fault,
                                  userId |-> NoUser]
                       /\ resp' = [status |-> 200, body |-> row]
                       /\ UNCHANGED inflight
       /\ UNCHANGED <<codeSnippets, snippetMessages, codingChallenges,
                      userPracticeStats, projects, clock>>

\* the two statements in one transaction: a failing upsert takes the
\* inserted submission back
SubmitUpsertAtomic ==
  \E r \in DOMAIN inflight, fault \in BOOLEAN :
    LET stored == WhereEq(challengeSubmissions, "id", inflight[r].submission)
    IN /\ inflight[r].pc = "upsert"
       /\ stored # <<>>
       /\ req' = [op |-> "submit", fault |-> fault,
                  userId |-> inflight[r].userId]
       /\ IF fault
          THEN /\ resp' = [status |-> 400, body |-> "storage"]
               /\ inflight' = [inflight EXCEPT ![r].pc = "failed"]
               /\ challengeSubmissions' =
                    SelectSeq(challengeSubmissions,
                              LAMBDA row : row.id # inflight[r].submission)
               /\ UNCHANGED userPracticeStats
          ELSE /\ userPracticeStats' =
                    Upsert(userPracticeStats, inflight[r].userId, clock)
               /\ resp' = [status |-> 200, body |-> stored[1]]
               /\ inflight' = [inflight EXCEPT ![r].pc = "done"]
               /\ UNCHANGED challengeSubmissions
       /\ UNCHANGED <<codeSnippets, snippetMessages, codingChallenges,
                      projects, clock>>

\* the second statement of a submit request in flight, and its answer
SubmitUpsert ==
  \E r \in DOMAIN inflight, fault \in BOOLEAN :
    /\ inflight[r].pc = "upsert"
    /\ req' = [op |-> "submit", fault |-> fault,
               userId |-> inflight[r].userId]
    /\ IF fault
       THEN /\ resp' = [status |-> 400, body |-> "storage"]
            /\ inflight' = [inflight EXCEPT ![r].pc = "failed"]
            /\ UNCHANGED userPracticeStats
       ELSE /\ userPracticeStats' =
                 Upsert(userPracticeStats, inflight[r].userId, clock)
            /\ resp' = [status |-> 200,
                        body |-> challengeSubmissions[inflight[r].submission]]
            /\ inflight' = [inflight EXCEPT ![r].pc = "done"]
    /\ UNCHANGED <<codeSnippets, snippetMessages, codingChallenges,
                   challengeSubmissions, projects, clock>>

LeaderboardLimit == 100

\* GET /api/leaderboard
GetLeaderboard ==
  \E tie \in Ties, fault \in BOOLEAN :
    /\ req' = [op |-> "leaderboard", fault |-> fault]
    /\ resp' = IF fault THEN InternalError
               ELSE [status |-> 200,
                     body |-> Limit(OrderByDesc(userPracticeStats,
                                                "totalPoints", tie),
                                    LeaderboardLimit)]
    /\ UNCHANGED <<tables, clock, inflight>>

\* the object GET /api/users/:userId/stats answers for a user without a row
ZeroStats(userId) ==
  [userId |-> userId,
   totalChallenges |-> 0,
   totalSubmissions |-> 0,
   averageScore |-> "0.00",
   totalPoints |-> 0,
   currentStreak |-> 0,
   longestStreak |-> 0]

\* a lookup that creates the missing row
GetUserStatsPersisting ==
  \E userId \in Users, fault \in BOOLEAN :
    LET found == Limit(WhereEq(userPracticeStats, "userId", userId), 1)
    IN /\ req' = [op |-> "getUserStats", userId |-> userId, fault |-> fault]
       /\ resp' = IF fault THEN InternalError
                  ELSE [status |-> 200,
                        body |-> IF found # <<>> THEN found[1]
                                 ELSE ZeroStats(userId)]
       /\ userPracticeStats' =
            IF fault \/ found # <<>> THEN userPracticeStats
            ELSE Append(userPracticeStats,
                        [StatsValues(userId, clock) EXCEPT
                           !.totalChallenges = 0, !.totalSubmissions = 0,
                           !.averageScore = "0.00", !.totalPoints = 0])
       /\ UNCHANGED <<codeSnippets, snippetMessages, codingChallenges,
                      challengeSubmissions, projects, clock, inflight>>

\* GET /api/users/:userId/stats
GetUserStats ==
  \E userId \in Users, fault \in BOOLEAN :
    LET found == Limit(WhereEq(userPracticeStats, "userId", userId), 1)
    IN /\ req' = [op |-> "getUserStats", userId |-> userId, fault |-> fault]
       /\ resp' = IF fault THEN InternalError
                  ELSE [status |-> 200,
                        body |-> IF found # <<>> THEN found[1]
                                 ELSE ZeroStats(userId)]
       /\ UNCHANGED <<tables, clock, inflight>>

\* the store after one generated challenge; no submission, no statistics
PracticeInit ==
  /\ codeSnippets = <<>>
  /\ snippetMessages = <<>>
  /\ codingChallenges = <<NewChallengeRow("easy", "python", 1, 0)>>
  /\ challengeSubmissions = <<>>
  /\ userPracticeStats = <<>>
  /\ projects = <<>>
  /\ clock = 0
  /\ inflight = <<>>
  /\ req = NoExchange
  /\ resp = NoResponse

\* the clock stands still here: the time stamps play no part in the totals
PracticeNext ==
  SubmitInsert \/ SubmitUpsert \/ GetLeaderboard \/ GetUserStats

Spec == PracticeInit /\ [][PracticeNext]_vars

-----------------------------------------------------------------------------
(* Messages. *)

MessageLimit == 100
MaxPosts == 2

\* request bodies of POST /api/snippets/:snippetId/messages
MessageBodies ==
  { [username |-> "ann", content |-> "hi"],
    [username |-> "bob", content |-> "yo", snippetId |-> 2, id |-> 99,
     createdAt |-> 99],
    [content |-> "hi"] }

MessageColumns ==
  {"snippetId", "userId", "username", "messageType", "content", "fileUrl",
   "fileName", "fileSize", "fileType"}

\* insertSnippetMessageSchema.parse succeeds: username is NOT NULL without a
\* default
insertSnippetMessageSchemaOk(body) == "username" \in DOMAIN body

\* insertSnippetMessageSchema.parse({...req.body, snippetId}): id, createdAt
\* and updatedAt are omitted from the schema and stripped
insertSnippetMessageSchemaParse(body, snippetId) ==
  [k \in (MessageColumns \cap DOMAIN body) \cup {"snippetId"} |->
     IF k = "snippetId" THEN snippetId ELSE body[k]]

\* the row db.insert(snippetMessages).values(data) stores
NewMessageRow(data, id, now) ==
  [id |-> id,
   snippetId |-> data.snippetId,
   userId |-> OrDefault(Get(data, "userId"), Null),
   username |-> data.username,
   messageType |-> OrDefault(Get(data, "messageType"), "text"),
   content |-> OrDefault(Get(data, "content"), Null),
   fileUrl |-> OrDefault(Get(data, "fileUrl"), Null),
   createdAt |-> now,
   updatedAt |-> now]

\* snippet_id references code_snippets(id)
SnippetExists(snippetId) ==
  \E i \in DOMAIN codeSnippets : codeSnippets[i].id = snippetId

\* the :snippetId of a path; no snippet has the last one
SnippetIdParams == {1, 2, 3}

\* the messages posted since the store held none, or MessageLimit of them
Posted(table) ==
  IF Len(table) >= MessageLimit THEN Len(table) - MessageLimit
  ELSE Len(table)

\* POST /api/snippets/:snippetId/messages
PostMessage ==
  \E body \in MessageBodies, snippetId \in SnippetIdParams, fault \in BOOLEAN :
    LET data == insertSnippetMessageSchemaParse(body, snippetId)
        row == NewMessageRow(data, RandomId(snippetMessages), clock)
    IN /\ Posted(snippetMessages) < MaxPosts
       /\ req' = [op |-> "postMessage", snippetId |-> snippetId,
                  fault |-> fault]
       /\ IF ~insertSnippetMessageSchemaOk(body)
          THEN /\ resp' = [status |-> 400, body |-> "validation"]
               /\ UNCHANGED snippetMessages
          ELSE IF fault \/ ~SnippetExists(snippetId)
          THEN /\ resp' = [status |-> 400, body |-> "storage"]
               /\ UNCHANGED snippetMessages
          ELSE /\ snippetMessages' = Append(snippetMessages, row)
               /\ resp' = [status |-> 200, body |-> row]
       /\ UNCHANGED <<codeSnippets, codingChallenges, challengeSubmissions,
                      userPracticeStats, projects, clock, inflight>>

\* a listing in ascending order of creation
MessagesOfAscending(snippetId, tie) ==
  Limit(Reverse(OrderByDesc(WhereEq(snippetMessages, "snippetId", snippetId),
                            "createdAt", tie)),
        MessageLimit)

\* select().from(snippetMessages).where(eq(snippetId, :snippetId))
\*   .orderBy(desc(createdAt)).limit(100)
MessagesOf(snippetId, tie) ==
  Limit(OrderByDesc(WhereEq(snippetMessages, "snippetId", snippetId),
                    "createdAt", tie),
        MessageLimit)

\* GET /api/snippets/:snippetId/messages
GetMessages ==
  \E snippetId \in SnippetIdParams, tie \in Ties, fault \in BOOLEAN :
    /\ req' = [op |-> "getMessages", snippetId |-> snippetId,
               fault |-> fault]
    /\ resp' = IF fault THEN InternalError
               ELSE [status |-> 200, body |-> MessagesOf(snippetId, tie)]
    /\ UNCHANGED <<tables, clock, inflight>>

\* n messages of snippet 1, posted before the clock advanced
SeedMessages(n) ==
  [i \in 1..n |->
     NewMessageRow([username |-> "ann", snippetId |-> 1], i, 0)]

\* two snippets stored; no message, or MessageLimit messages of snippet 1
MessageInit ==
  /\ codeSnippets =
       << NewSnippetRow([content |-> "c1"], [i \in 1..TokenLen |-> "a"], 1, 0),
          NewSnippetRow([content |-> "c1"], [i \in 1..TokenLen |-> "b"], 2, 0) >>
  /\ snippetMessages \in {SeedMessages(0), SeedMessages(MessageLimit)}
  /\ codingChallenges = <<>>
  /\ challengeSubmissions = <<>>
  /\ userPracticeStats = <<>>
  /\ projects = <<>>
  /\ clock = 0
  /\ inflight = <<>>
  /\ req = NoExchange
  /\ resp = NoResponse

MessageNext == PostMessage \/ GetMessages \/ Tick

MessageSpec == MessageInit /\ [][MessageNext]_vars

-----------------------------------------------------------------------------
(* Challenge listing. *)

ChallengeLimit == 50

\* request bodies of POST /api/coding-challenges/generate
GenerateBodies ==
  { [difficulty |-> "easy", language |-> "python"],
    [difficulty |-> "easy", language |-> "go"],
    [difficulty |-> "hard", language |-> "python"],
    [language |-> "python"] }

\* the challenges generated since the store held none, or ChallengeLimit
\* of them
Generated(table) ==
  IF Len(table) >= ChallengeLimit THEN Len(table) - ChallengeLimit
  ELSE Len(table)

\* POST /api/coding-challenges/generate; difficulty.charAt throws on a body
\* without difficulty
GenerateChallenge ==
  \E body \in GenerateBodies, fault \in BOOLEAN :
    /\ Generated(codingChallenges) < MaxPosts
    /\ req' = [op |-> "generate", fault |-> fault]
    /\ IF "difficulty" \notin DOMAIN body \/ fault
       THEN /\ resp' = InternalError
            /\ UNCHANGED codingChallenges
       ELSE LET row == NewChallengeRow(body.difficulty, body.language,
                                       RandomId(codingChallenges), clock)
            IN /\ codingChallenges' = Append(codingChallenges, row)
               /\ resp' = [status |-> 200, body |-> row]
    /\ UNCHANGED <<codeSnippets, snippetMessages, challengeSubmissions,
                   userPracticeStats, projects, clock, inflight>>

\* a query parameter that is given and not empty: if (difficulty)
Truthy(v) == v \notin {Undef, ""}

\* the conditions combined with or
ChallengeMatchesEither(row, difficulty, language) ==
  \/ ~Truthy(difficulty) /\ ~Truthy(language)
  \/ Truthy(difficulty) /\ row.difficulty = difficulty
  \/ Truthy(language) /\ row.language = language

\* where(conditions.length > 0 ? and(...conditions) : undefined)
ChallengeMatches(row, difficulty, language) ==
  /\ Truthy(difficulty) => row.difficulty = difficulty
  /\ Truthy(language) => row.language = language

\* select().from(codingChallenges).where(...).orderBy(desc(createdAt))
\*   .limit(50)
ChallengesOf(difficulty, language, tie) ==
  Limit(OrderByDesc(SelectSeq(codingChallenges,
                              LAMBDA row :
                                ChallengeMatches(row, difficulty, language)),
                    "createdAt", tie),
        ChallengeLimit)

\* GET /api/coding-challenges
GetChallenges ==
  \E difficulty \in {Undef, "", "easy"}, language \in {Undef, "python", "go"},
     tie \in Ties, fault \in BOOLEAN :
    /\ req' = [op |-> "getChallenges", difficulty |-> difficulty,
               language |-> language, fault |-> fault]
    /\ resp' = IF fault THEN InternalError
               ELSE [status |-> 200,
                     body |-> ChallengesOf(difficulty, language, tie)]
    /\ UNCHANGED <<tables, clock, inflight>>

\* n easy python challenges, generated before the clock advanced
SeedChallenges(n) ==
  [i \in 1..n |-> NewChallengeRow("easy", "python", i, 0)]

\* no challenge, or ChallengeLimit of them
ChallengeInit ==
  /\ codeSnippets = <<>>
  /\ snippetMessages = <<>>
  /\ codingChallenges \in {SeedChallenges(0), SeedChallenges(ChallengeLimit)}
  /\ challengeSubmissions = <<>>
  /\ userPracticeStats = <<>>
  /\ projects = <<>>
  /\ clock = 0
  /\ inflight = <<>>
  /\ req = NoExchange
  /\ resp = NoResponse

ChallengeNext == GenerateChallenge \/ GetChallenges \/ Tick

ChallengeSpec == ChallengeInit /\ [][ChallengeNext]_vars

-----------------------------------------------------------------------------
(* Projects. *)

MaxProjects == 3

\* the row of a project
ProjectRow(id, ownerId, updatedAt) ==
  [id |-> id,
   ownerId |-> ownerId,
   name |-> "p",
   description |-> Null,
   githubBranch |-> "main",
   createdAt |-> 0,
   updatedAt |-> updatedAt]

\* the query strings of GET /api/projects: without ownerId, with an empty
\* one (NoUser), with the id of a user
ProjectQueries ==
  {[has |-> FALSE, ownerId |-> NoUser]}
  \cup {[has |-> TRUE, ownerId |-> u] : u \in Users \cup {NoUser}}

\* no check of the parameter
OwnerIdMissingNever(query) == FALSE

\* if (!ownerId)
OwnerIdMissing(query) == ~query.has \/ query.ownerId = NoUser

\* select().from(projects).where(eq(ownerId, :ownerId))
\*   .orderBy(desc(updatedAt))
ProjectsOf(ownerId, tie) ==
  OrderByDesc(WhereEq(projects, "ownerId", ownerId), "updatedAt", tie)

\* GET /api/projects; stmts is the number of statements sent to the store
GetProjects ==
  \E query \in ProjectQueries, tie \in Ties, fault \in BOOLEAN :
    /\ IF OwnerIdMissing(query)
       THEN /\ req' = [op |-> "getProjects", query |-> query,
                       fault |-> fault, stmts |-> 0]
            /\ resp' = [status |-> 400, body |-> "ownerId is required"]
       ELSE /\ req' = [op |-> "getProjects", query |-> query,
                       fault |-> fault, stmts |-> 1]
            /\ resp' = IF fault THEN InternalError
                       ELSE [status |-> 200,
                             body |-> ProjectsOf(query.ownerId, tie)]
    /\ UNCHANGED <<tables, clock, inflight>>

\* no handler writes projects: any table of up to MaxProjects rows
ProjectInit ==
  /\ codeSnippets = <<>>
  /\ snippetMessages = <<>>
  /\ codingChallenges = <<>>
  /\ challengeSubmissions = <<>>
  /\ userPracticeStats = <<>>
  /\ \E n \in 0..MaxProjects :
       \E owner \in [1..n -> Users], updated \in [1..n -> 0..MaxClock] :
         projects = [i \in 1..n |-> ProjectRow(i, owner[i], updated[i])]
  /\ clock = MaxClock
  /\ inflight = <<>>
  /\ req = NoExchange
  /\ resp = NoResponse

ProjectNext == GetProjects

ProjectSpec == ProjectInit /\ [][ProjectNext]_vars

-----------------------------------------------------------------------------
(* Properties of the snippet handlers. *)

PatchedColumns == {"content", "title", "description", "language", "updatedAt"}

\* C3: a PATCH /api/snippets/:shareToken changes nothing but content, title,
\* description, language and updatedAt of the row whose shareToken is the
\* path's: the other columns of that row, every other snippet row and every
\* other table are the same after the request, whatever the body carries.
PatchChangesOnlyDocumentedFields ==
  [][req'.op = "patchSnippet" =>
       /\ DOMAIN codeSnippets' = DOMAIN codeSnippets
       /\ \A i \in DOMAIN codeSnippets :
            /\ DOMAIN codeSnippets'[i] = DOMAIN codeSnippets[i]
            /\ \A k \in DOMAIN codeSnippets[i] \ PatchedColumns :
                 codeSnippets'[i][k] = codeSnippets[i][k]
            /\ codeSnippets[i].shareToken # req'.shareToken
                 => codeSnippets'[i] = codeSnippets[i]
       /\ UNCHANGED <<snippetMessages, codingChallenges, challengeSubmissions,
                      userPracticeStats, projects>>]_vars

\* a PATCH whose body also carried shareToken, ownerId, isPublic, id and
\* createdAt has updated one of two stored rows
PatchWitness ==
  /\ req.op = "patchSnippet"
  /\ resp.status = 200
  /\ resp.body.language = "go"
  /\ resp.body.updatedAt > resp.body.createdAt
  /\ Len(codeSnippets) = 2

\* C4: every stored snippet has a non-empty shareToken, no two stored
\* snippets share one, and the stored token is the generated one (a string
\* of TokenLen symbols the generator returned), never a value of the body;
\* a create whose generated token is in use stores nothing.
ShareTokenUnique ==
  /\ \A i \in DOMAIN codeSnippets :
       /\ Len(codeSnippets[i].shareToken) > 0
       /\ codeSnippets[i].shareToken \in nanoid(TokenLen)
  /\ \A i, j \in DOMAIN codeSnippets :
       i # j => codeSnippets[i].shareToken # codeSnippets[j].shareToken
  /\ (req.op = "postSnippet" /\ resp.status = 200)
       => /\ resp.body.shareToken = req.nanoid
          /\ resp.body \in RowSet(codeSnippets)

\* the generator returned a token in use: the create was refused with two
\* snippets stored, one of them created from a body that carried a shareToken
ShareTokenWitness ==
  /\ req.op = "postSnippet"
  /\ ~req.fault
  /\ resp.status = 400
  /\ resp.body = "storage"
  /\ Len(codeSnippets) = 2
  /\ \E i \in DOMAIN codeSnippets :
       codeSnippets[i].title = "t1" /\ codeSnippets[i].description = Null

\* C5: a GET of the token a successful create just returned answers 200 with
\* the very row the create returned; more generally a GET answers the stored
\* row of its token, and no request other than a PATCH changes a stored row.
CreateThenFetch ==
  [][/\ ( /\ req.op = "postSnippet" /\ resp.status = 200
          /\ req'.op = "getSnippet" /\ ~req'.fault
          /\ req'.shareToken = resp.body.shareToken )
          => resp'.status = 200 /\ resp'.body = resp.body
     /\ (req'.op = "getSnippet" /\ ~req'.fault)
          => \A i \in DOMAIN codeSnippets :
               codeSnippets[i].shareToken = req'.shareToken
                 => resp'.status = 200 /\ resp'.body = codeSnippets[i]
     /\ req'.op # "patchSnippet"
          => \A i \in DOMAIN codeSnippets :
               i \in DOMAIN codeSnippets' /\ codeSnippets'[i] = codeSnippets[i]
    ]_vars

\* a GET answered the second of two stored snippets, never patched
CreateThenFetchWitness ==
  /\ req.op = "getSnippet"
  /\ resp.status = 200
  /\ Len(codeSnippets) = 2
  /\ resp.body = codeSnippets[2]
  /\ resp.body.updatedAt = resp.body.createdAt

NoSnippetHas(shareToken) ==
  \A i \in DOMAIN codeSnippets : codeSnippets[i].shareToken # shareToken

\* C6: a GET or a PATCH whose token matches no stored snippet is answered
\* 404 (the statement having run), and such a PATCH leaves the store as it was.
MissingSnippetIs404 ==
  [][/\ ( /\ req'.op \in {"getSnippet", "patchSnippet"}
          /\ ~req'.fault
          /\ NoSnippetHas(req'.shareToken) )
          => /\ resp'.status = 404
             /\ UNCHANGED tables
     /\ (req'.op \in {"getSnippet", "patchSnippet"} /\ resp'.status = 404)
          => NoSnippetHas(req'.shareToken) /\ UNCHANGED tables
    ]_vars

\* a PATCH of a token that no stored snippet has, with snippets stored
MissingSnippetWitness ==
  /\ req.op = "patchSnippet"
  /\ resp.status = 404
  /\ Len(codeSnippets) = 2
  /\ NoSnippetHas(req.shareToken)

-----------------------------------------------------------------------------
(* Properties of the submit, statistics and leaderboard handlers. *)

\* the submit requests of a user that reached the upsert
RequestsOf(u) == {r \in DOMAIN inflight : inflight[r].userId = u}

\* the statistics rows of a user
StatsOf(u) == WhereEq(userPracticeStats, "userId", u)

\* C1: when N >= 1 submit requests of one user, their inserts and upserts
\* interleaved in any order, have all been answered 200, and the user had no
\* row at the start, the user's row holds totalPoints = N * 100 and
\* totalSubmissions = N.
NoLostUpdate ==
  \A u \in Users :
    LET R == RequestsOf(u)
    IN (R # {} /\ \A r \in R : inflight[r].pc = "done")
         => /\ Len(StatsOf(u)) = 1
            /\ StatsOf(u)[1].totalPoints = Cardinality(R) * 100
            /\ StatsOf(u)[1].totalSubmissions = Cardinality(R)

\* three requests of user 1 have all been answered 200
NoLostUpdateWitness ==
  /\ Cardinality(RequestsOf(1)) = 3
  /\ \A r \in RequestsOf(1) : inflight[r].pc = "done"
  /\ req.op = "submit" /\ resp.status = 200
  /\ StatsOf(1)[1].totalPoints = 300

\* the step answers request r with 200
Completes(r) ==
  /\ r \in DOMAIN inflight
  /\ inflight[r].pc = "upsert"
  /\ inflight'[r].pc = "done"

\* C2: a successful submit of a known user raises the user's stored
\* totalSubmissions by exactly 1 and totalPoints by 100 (from 0 when there is
\* no row), so two of them run one after the other raise them by 2 and 200,
\* and the second of two from no row leaves totalSubmissions = 2 and
\* totalPoints = 200.
SubmitAddsToStored ==
  [][\A r \in DOMAIN inflight : Completes(r) =>
       LET u == inflight[r].userId
           before == StatsOf(u)
           after == WhereEq(userPracticeStats', "userId", u)
           others == RequestsOf(u) \ {r}
       IN /\ Len(after) = 1
          /\ after[1].totalSubmissions =
               (IF before = <<>> THEN 0 ELSE before[1].totalSubmissions) + 1
          /\ after[1].totalPoints =
               (IF before = <<>> THEN 0 ELSE before[1].totalPoints) + 100
          /\ ( /\ Cardinality(others) = 1
               /\ \A o \in others : inflight[o].pc = "done" )
               => /\ before # <<>>
                  /\ after[1].totalSubmissions = 2
                  /\ after[1].totalPoints = 200
    ]_vars

\* the second of two submits of user 2 has been answered on the conflict
\* branch
SubmitTwiceWitness ==
  /\ Cardinality(RequestsOf(2)) = 2
  /\ \A r \in RequestsOf(2) : inflight[r].pc = "done"
  /\ req.op = "submit" /\ req.userId = 2 /\ resp.status = 200
  /\ StatsOf(2)[1].totalSubmissions = 2
  /\ StatsOf(2)[1].totalPoints = 200

\* C9: GET /api/users/:userId/stats for a user without a row answers 200 with
\* the requested userId and zero totals, and the request changes no table; a
\* leaderboard lists only stored rows, each of a user with a stored
\* submission, so never a user who was only looked up.  (A step that leaves
\* inflight alone and ends with the lookup as the last exchange is the lookup.)
StatsLookupPersistsNothing ==
  [][/\ (req'.op = "getUserStats" /\ UNCHANGED inflight) => UNCHANGED tables
     /\ (req'.op = "getUserStats" /\ ~req'.fault /\ StatsOf(req'.userId) = <<>>)
          => /\ resp'.status = 200
             /\ resp'.body = [userId |-> req'.userId,
                              totalChallenges |-> 0,
                              totalSubmissions |-> 0,
                              averageScore |-> "0.00",
                              totalPoints |-> 0,
                              currentStreak |-> 0,
                              longestStreak |-> 0]
     /\ (req'.op = "leaderboard" /\ resp'.status = 200)
          => \A i \in DOMAIN resp'.body :
               /\ resp'.body[i] \in RowSet(userPracticeStats)
               /\ \E j \in DOMAIN challengeSubmissions :
                    challengeSubmissions[j].userId = resp'.body[i].userId
    ]_vars

\* a user without a row was looked up while another user has one
StatsLookupWitness ==
  /\ req.op = "getUserStats"
  /\ ~req.fault
  /\ resp.status = 200
  /\ resp.body.totalSubmissions = 0
  /\ StatsOf(req.userId) = <<>>
  /\ Len(userPracticeStats) = 1

-----------------------------------------------------------------------------
(* Properties of the message listing. *)

\* the stored messages of the snippet of the last request
StoredOf(snippetId) == WhereEq(snippetMessages, "snippetId", snippetId)

\* the listing answered: at most 100 rows, each a stored message of the
\* requested snippet, none twice, as many as the snippet has up to 100, and
\* no stored message of the snippet left out is newer than a listed one
ListsMostRecent ==
  LET body == resp.body
      stored == StoredOf(req.snippetId)
  IN /\ Len(body) <= 100
     /\ Len(body) = Min(100, Len(stored))
     /\ \A i \in DOMAIN body :
          /\ body[i].snippetId = req.snippetId
          /\ body[i] \in RowSet(snippetMessages)
     /\ \A i, j \in DOMAIN body : i # j => body[i].id # body[j].id
     /\ \A k \in DOMAIN stored :
          (\A i \in DOMAIN body : body[i].id # stored[k].id)
            => \A i \in DOMAIN body : body[i].createdAt >= stored[k].createdAt

\* C7 as stated: the listing is as above and each row's createdAt is
\* greater than the next row's.
MessagesStrictlyDescending ==
  (req.op = "getMessages" /\ resp.status = 200)
    => /\ ListsMostRecent
       /\ \A i \in 1..(Len(resp.body) - 1) :
            resp.body[i].createdAt > resp.body[i + 1].createdAt

\* C7, amended: the listing is as above and no row's createdAt is less than
\* the next row's (two messages stored at the same time are listed one after
\* the other, in either order).
MessagesDescending ==
  (req.op = "getMessages" /\ resp.status = 200)
    => /\ ListsMostRecent
       /\ \A i \in 1..(Len(resp.body) - 1) :
            resp.body[i].createdAt >= resp.body[i + 1].createdAt

\* a snippet with more than 100 messages, stored at two different times, was
\* listed while the other snippet has a message too
MessagesWitness ==
  /\ req.op = "getMessages"
  /\ resp.status = 200
  /\ Len(StoredOf(req.snippetId)) > 100
  /\ Len(resp.body) = 100
  /\ resp.body[1].createdAt > resp.body[100].createdAt
  /\ Len(snippetMessages) > Len(StoredOf(req.snippetId))

-----------------------------------------------------------------------------
(* Properties of the challenge and project listings. *)

\* a query parameter counts as given when it is present and not empty
Given(v) == v # Undef /\ v # ""

\* the stored challenges that equal every parameter given
Wanted(row) ==
  /\ Given(req.difficulty) => row.difficulty = req.difficulty
  /\ Given(req.language) => row.language = req.language

\* C8: GET /api/coding-challenges lists only stored challenges whose
\* difficulty and language equal every parameter given (both, when both are
\* given; all challenges, when none is), at most 50 of them and as many as
\* there are up to 50, newest first, none left out being newer than a listed
\* one.
ChallengesFiltered ==
  (req.op = "getChallenges" /\ resp.status = 200)
    => LET body == resp.body
           wanted == SelectSeq(codingChallenges, Wanted)
       IN /\ Len(body) <= 50
          /\ Len(body) = Min(50, Len(wanted))
          /\ \A i \in DOMAIN body :
               body[i] \in RowSet(codingChallenges) /\ Wanted(body[i])
          /\ \A i, j \in DOMAIN body : i # j => body[i].id # body[j].id
          /\ \A i \in 1..(Len(body) - 1) :
               body[i].createdAt >= body[i + 1].createdAt
          /\ \A k \in DOMAIN wanted :
               (\A i \in DOMAIN body : body[i].id # wanted[k].id)
                 => \A i \in DOMAIN body :
                      body[i].createdAt >= wanted[k].createdAt

\* both parameters given, more than 50 challenges equal both, generated at
\* two different times, and the store holds a challenge that equals only one
\* of them
ChallengesWitness ==
  /\ req.op = "getChallenges"
  /\ resp.status = 200
  /\ req.difficulty = "easy" /\ req.language = "python"
  /\ Len(SelectSeq(codingChallenges, Wanted)) > 50
  /\ Len(resp.body) = 50
  /\ resp.body[1].createdAt > resp.body[50].createdAt
  /\ \E i \in DOMAIN codingChallenges :
       /\ codingChallenges[i].difficulty = "easy"
       /\ codingChallenges[i].language = "go"

\* C10: GET /api/projects without an ownerId (or with an empty one) answers
\* 400 and sends no statement to the store, whether or not the store would
\* fail; with the id of an owner it lists exactly the projects of that owner,
\* each once, none updated earlier listed before one updated later.
ProjectsOfOwner ==
  req.op = "getProjects" =>
    /\ (~req.query.has \/ req.query.ownerId = NoUser)
         => resp.status = 400 /\ req.stmts = 0
    /\ (req.query.has /\ req.query.ownerId \in Users /\ ~req.fault)
         => /\ resp.status = 200
            /\ RowSet(resp.body) = {projects[i] : i \in
                 {j \in DOMAIN projects :
                    projects[j].ownerId = req.query.ownerId}}
            /\ Len(resp.body) = Cardinality(RowSet(resp.body))
            /\ \A i \in 1..(Len(resp.body) - 1) :
                 resp.body[i].updatedAt >= resp.body[i + 1].updatedAt

\* the request without ownerId was refused while the store, holding
\* projects, was failing
ProjectsRefusedWitness ==
  /\ req.op = "getProjects"
  /\ ~req.query.has
  /\ req.fault
  /\ resp.status = 400
  /\ Len(projects) = 3

-----------------------------------------------------------------------------
(* Properties of the error answers of the inserting handlers. *)

\* the handlers whose catch block follows an insert
InsertingOps == {"postSnippet", "postMessage", "submit"}

\* C11: a failure at the storage boundary is answered with HTTP 500 and a
\* generic body, and only a schema-validation failure is answered with HTTP
\* 400, in the inserting handlers too.
StorageFailureIs500 ==
  req.op \in InsertingOps =>
    /\ resp.status = 400 => resp.body = "validation"
    /\ (resp.status >= 400 /\ resp.body = "storage") => resp = InternalError

-----------------------------------------------------------------------------
(* Properties of the two statements of the submit handler. *)

\* the columns of user_practice_stats
StatsColumns == DOMAIN StatsValues(NoUser, 0)

\* the columns named in the SET clause of the conflict branch
ConflictColumns == {"totalSubmissions", "totalPoints", "updatedAt"}

\* C12: when a submit request takes the conflict branch of the upsert (the
\* user already has a row), only totalSubmissions, totalPoints and updatedAt
\* of that row change: every other column of the row and every other row keep
\* their values, and no row is added; a submit request without a userId
\* leaves the whole statistics table unchanged.
ConflictChangesOnlySetColumns ==
  [][/\ \A r \in DOMAIN inflight :
          (Completes(r) /\ StatsOf(inflight[r].userId) # <<>>) =>
            /\ Len(userPracticeStats') = Len(userPracticeStats)
            /\ \A i \in DOMAIN userPracticeStats :
                 IF userPracticeStats[i].userId = inflight[r].userId
                 THEN /\ \A c \in StatsColumns \ ConflictColumns :
                           userPracticeStats'[i][c] = userPracticeStats[i][c]
                      /\ userPracticeStats'[i].updatedAt = clock
                 ELSE userPracticeStats'[i] = userPracticeStats[i]
     /\ (req'.op = "submit" /\ req'.userId = NoUser /\ UNCHANGED inflight)
          => UNCHANGED userPracticeStats
    ]_vars

\* user 1's row went through the conflict branch with its other columns as
\* inserted, and a submit without a userId was then stored and answered
ConflictWitness ==
  /\ req.op = "submit" /\ req.userId = NoUser /\ resp.status = 200
  /\ Len(challengeSubmissions) = 3
  /\ Len(StatsOf(1)) = 1
  /\ StatsOf(1)[1].totalSubmissions = 2
  /\ StatsOf(1)[1].totalChallenges = 1
  /\ StatsOf(1)[1].averageScore = "100.00"

\* the step in which the upsert of request r fails
UpsertFails(r) ==
  /\ r \in DOMAIN inflight
  /\ inflight[r].pc = "upsert"
  /\ inflight'[r].pc = "failed"

\* the submission inserted by request r is stored in the table
SubmissionStored(table, r) ==
  \E i \in DOMAIN table :
    /\ table[i].id = inflight[r].submission
    /\ table[i].userId = inflight[r].userId

\* C13: the submission insert and the stats upsert are two statements without
\* a transaction or a compensating action: when the upsert fails after the
\* insert succeeded, the submission row stays stored (then and ever after),
\* the statistics are not increased, and the request is answered with an
\* error status, not with the stored submission.
FailedUpsertKeepsSubmission ==
  [][\A r \in DOMAIN inflight :
       /\ UpsertFails(r) =>
            /\ SubmissionStored(challengeSubmissions, r)
            /\ UNCHANGED challengeSubmissions
            /\ UNCHANGED userPracticeStats
            /\ req'.op = "submit" /\ req'.userId = inflight[r].userId
            /\ resp'.status >= 400
       /\ inflight[r].pc = "failed" =>
            /\ inflight'[r] = inflight[r]
            /\ SubmissionStored(challengeSubmissions', r)
    ]_vars

\* the only request of user 1 was answered with an error after its upsert
\* failed: its submission is stored and the user has no statistics
FailedUpsertWitness ==
  /\ req.op = "submit" /\ req.userId = 1 /\ req.fault
  /\ resp.status = 400
  /\ \E r \in RequestsOf(1) :
       /\ RequestsOf(1) = {r}
       /\ inflight[r].pc = "failed"
       /\ SubmissionStored(challengeSubmissions, r)
  /\ StatsOf(1) = <<>>

\* the stored submissions of a user
SubmissionsOf(u) == WhereEq(challengeSubmissions, "userId", u)

\* the totalSubmissions of a user, 0 without a row
TotalSubmissionsOf(u) ==
  IF StatsOf(u) = <<>> THEN 0 ELSE StatsOf(u)[1].totalSubmissions

\* C14: in every reachable state from a store without submissions and
\* statistics, for every user totalSubmissions (0 without a row) is at most
\* the number of stored submissions of that user, every statistics row has
\* totalPoints = 100 * totalSubmissions, and when none of the user's requests
\* is awaiting its upsert and none of their upserts has failed the two counts
\* are equal.
StatsAgreeWithSubmissions ==
  /\ \A u \in Users :
       /\ Len(StatsOf(u)) <= 1
       /\ TotalSubmissionsOf(u) <= Len(SubmissionsOf(u))
       /\ (\A r \in RequestsOf(u) : inflight[r].pc = "done")
            => TotalSubmissionsOf(u) = Len(SubmissionsOf(u))
  /\ \A i \in DOMAIN userPracticeStats :
       /\ userPracticeStats[i].userId \in Users
       /\ userPracticeStats[i].totalPoints =
            100 * userPracticeStats[i].totalSubmissions

\* user 1 has three stored submissions, two counted and one whose upsert
\* failed, and nothing is in flight
StatsBehindWitness ==
  /\ Len(SubmissionsOf(1)) = 3
  /\ TotalSubmissionsOf(1) = 2
  /\ StatsOf(1)[1].totalPoints = 200
  /\ \A r \in DOMAIN inflight : inflight[r].pc # "upsert"
  /\ \E r \in RequestsOf(1) : inflight[r].pc = "failed"

====
